---- MODULE Spec2Model ----
(***************************************************************************)
(* Model of the browser-action dispatcher, src/core/tools/                 *)
(* browserActionTool.ts.  One invocation of browserActionTool is a run     *)
(* from pc = "idle" through the handler's suspension points back to        *)
(* pc = "idle".  The BrowserSession and the page driver are collaborators  *)
(* whose calls resolve or reject nondeterministically; the Task's          *)
(* messaging of a complete command (say, sayAndCreateMissingParamError,    *)
(* recordToolError) and the caller's pushToolResult / handleError return   *)
(* normally.                                                               *)
(***************************************************************************)
EXTENDS Integers, Sequences, FiniteSets, TLC

\* ------------------------------------------------------------------------
\* Bounds of the model
MaxMistakes == 2        \* commands are accepted while the counter is below it
MaxElements == 1        \* interactive elements one analyzer pass can report

\* Program constants
MaxAttempts == 3        \* for (let attempt = 1; attempt <= 3; attempt++)

\* ------------------------------------------------------------------------
\* Vocabulary

\* shared/ExtensionMessage.browserActions: the ten supported actions
browserActions ==
    {"launch", "click", "hover", "type", "scroll_down", "scroll_up",
     "resize", "back", "forward", "close"}

\* block.params.action as it may arrive: a supported action, a missing one
\* ("") or an unsupported word
ActionWords == browserActions \cup {"", "bogus"}

\* A parameter is "" when absent (undefined and "" are both falsy in the code)
UrlsFor(a) == IF a = "launch" THEN {"", "https://example.com"} ELSE {""}
CoordinatesFor(a) == IF a \in {"click", "hover", "type"} THEN {"", "#go"} ELSE {""}
TextsFor(a) == IF a = "type" THEN {"", "hello"} ELSE {""}
SizesFor(a) == IF a = "resize" THEN {"", "900,600"} ELSE {""}

\* ToolUse blocks the caller may hand in: every action word, partial or
\* complete, with each parameter the handler reads for it present or absent
Blocks ==
    UNION { { [action |-> a, partial |-> p, url |-> u, coordinate |-> c,
               text |-> t, size |-> s] :
                p \in BOOLEAN, u \in UrlsFor(a), c \in CoordinatesFor(a),
                t \in TextsFor(a), s \in SizesFor(a) } : a \in ActionWords }

NoBlock ==
    [action |-> "none", partial |-> TRUE, url |-> "", coordinate |-> "",
     text |-> "", size |-> ""]

\* cline.api.getModel().info
ModelInfos == [supportsImages : BOOLEAN, supportsComputerUse : BOOLEAN, read : {TRUE}]

\* the interactive elements of a page in the order the inspection pushes
\* them (lines 50-99: buttons, links, inputs, textareas); selectors stand
\* for the elements
DocumentElements == <<"#go", "a[name=\"next\"]", "input[name=\"q\"]", "textarea[name=\"note\"]">>

\* InteractiveElement sequences of one analyzer pass: the first elements of
\* the page, up to n of them
ElementSeqs(n) ==
    { SubSeq(DocumentElements, 1, k) :
        k \in { j \in 0..n : j <= Len(DocumentElements) } }

\* Outcomes of the inspection page.evaluate of one analyzer pass: it rejects
\* (ok = FALSE), or resolves with the serialized document, the elements and
\* the block flag.  html: "none" = empty string, "tags" = markup without
\* any text, "text" = markup with text.  A block signature needs a
\* non-empty document.
EvaluateOutcomes ==
    { [ok |-> FALSE, html |-> "none", elements |-> <<>>, isSecurityBlock |-> FALSE,
       diagOk |-> d] : d \in BOOLEAN }
    \cup
    { [ok |-> TRUE, html |-> "none", elements |-> <<>>, isSecurityBlock |-> FALSE,
       diagOk |-> TRUE] }
    \cup
    { [ok |-> TRUE, html |-> h, elements |-> e, isSecurityBlock |-> b,
       diagOk |-> TRUE] :
         h \in {"tags", "text"}, e \in ElementSeqs(MaxElements), b \in BOOLEAN }

\* BrowserActionResult values a visual session primitive may resolve with
SessionResults ==
    [logs : {"logs"}, screenshot : {"", "image"}, textContent : {"", "session text"},
     interactiveElements : {<<>>}]

EmptyResult ==
    [logs |-> "", screenshot |-> "", textContent |-> "", interactiveElements |-> <<>>]

\* One payload handed to pushToolResult
Result(kind, detail, content, elements, image) ==
    [kind |-> kind, detail |-> detail, content |-> content,
     elements |-> elements, image |-> image, selector |-> "", hint |-> ""]

RECURSIVE Count(_, _)
Count(s, x) ==
    IF s = <<>> THEN 0
    ELSE (IF Head(s) = x THEN 1 ELSE 0) + Count(Tail(s), x)

\* ------------------------------------------------------------------------
\* State
VARIABLES
    pc,                       \* position of the running invocation, "idle" between
    block,                    \* the ToolUse block of the current / last invocation
    modelInfo,                \* the capabilities the handler has read from the model
    browserOpen,              \* the Session: TRUE while a page is open
    liveBrowsers,             \* browsers that were launched and not closed
    consecutiveMistakeCount,  \* cline.consecutiveMistakeCount
    calls,                    \* collaborator calls of the invocation, in order
    pushed,                   \* payloads given to pushToolResult, in order
    handled,                  \* handleError reports, in order
    attempt,                  \* loop variable of the retry loop
    passes,                   \* analyzer results of the invocation, in order
    pageAnalysis,             \* the handler's pageAnalysis / navPageAnalysis
    browserActionResult,      \* the handler's browserActionResult
    fallbackContent,          \* the fallback fetch's fallbackContent
    error,                    \* message of the error in flight, "" if none
    entry,                    \* counter and Session at the start of the invocation
    prev,                     \* what the preceding invocation was and reported
    dom,                      \* the page handed to analyzePageForTextBrowsing on its own
    element                   \* what the selector of the command matched on the page

vars ==
    <<pc, block, modelInfo, browserOpen, liveBrowsers, consecutiveMistakeCount, calls, pushed,
      handled, attempt, passes, pageAnalysis, browserActionResult,
      fallbackContent, error, entry, prev, dom, element>>

NoAnalysis == [content |-> "", elements |-> <<>>, isSecurityBlock |-> FALSE]

NoPrev == [close |-> FALSE, pushed |-> <<>>, handled |-> <<>>]

NoEntry == [mistakes |-> 0, open |-> FALSE]

\* the capabilities have not been read
NoInfo == [supportsImages |-> FALSE, supportsComputerUse |-> FALSE, read |-> FALSE]

\* no page is under inspection
NoPage == [evaluates |-> FALSE, diagnoses |-> FALSE, serialized |-> FALSE,
           markup |-> <<>>, text |-> <<>>, elements |-> <<>>]

\* the handler has not been called
HandlerAtRest ==
    /\ block = NoBlock
    /\ modelInfo = NoInfo
    /\ browserOpen = FALSE
    /\ liveBrowsers = 0
    /\ consecutiveMistakeCount = 0
    /\ calls = <<>>
    /\ pushed = <<>>
    /\ handled = <<>>
    /\ attempt = 0
    /\ passes = <<>>
    /\ pageAnalysis = NoAnalysis
    /\ browserActionResult = EmptyResult
    /\ fallbackContent = ""
    /\ error = ""
    /\ entry = NoEntry
    /\ prev = NoPrev
    /\ element = "unset"

Init ==
    /\ pc = "idle"
    /\ dom = NoPage
    /\ HandlerAtRest

\* ------------------------------------------------------------------------
\* Decisions of the handler

\* !action || !browserActions.includes(action)
ActionInvalid(a) == a = "" \/ a \notin browserActions

\* the block is counted whether partial or not
CountsInvalidActionAlways(b) == TRUE

\* the url check is skipped
UrlNeverMissing(b) == FALSE

\* the increment is lost
IncrementLost(n) == n

\* the local catch falls through to the result formatting
AfterLocalCatchFallsThrough == "format"

\* close is formatted like the other actions
FormatsAsCloseNever(a) == FALSE

\* the text branch also takes close
TextModeInterceptsClose(info, a) == ~info.supportsImages

\* if (!block.partial) at line 210: only a complete block counts as a mistake
CountsInvalidAction(b) == ~b.partial

\* if (!url) at line 243
UrlMissing(b) == b.url = ""

\* cline.consecutiveMistakeCount++
Increment(n) == n + 1

\* the counter is left as it was
ResetLost(n) == n

\* lines 251, 795: cline.consecutiveMistakeCount = 0
Reset(n) == 0

\* the return that ends each local catch of the text branch
AfterLocalCatch == "done"

\* the text branch goes on to the shared result formatting
AfterTextResultFallsThrough == "format"

\* lines 465, 507, 583, 667, 741: the return after the text result is pushed
AfterTextResult == "done"

\* case "close" of the switch at lines 839-891
FormatsAsClose(a) == a = "close"

\* !modelSupportsImages && action !== "close"
TextModeIntercepts(info, a) == ~info.supportsImages /\ a # "close"

MissingParamTextTextFirst(b) ==
    CASE b.action \in {"click", "hover"} /\ b.coordinate = "" -> "coordinate"
      [] b.action = "type" /\ b.text = "" -> "text"
      [] b.action = "type" /\ b.coordinate = "" -> "coordinate"
      [] OTHER -> ""

\* the parameter the text-mode branch reports missing, "" if none
MissingParamText(b) ==
    CASE b.action \in {"click", "hover"} /\ b.coordinate = "" -> "coordinate"
      [] b.action = "type" /\ b.coordinate = "" -> "coordinate"
      [] b.action = "type" /\ b.text = "" -> "text"
      [] OTHER -> ""

MissingParamVisualSkipsResize(b) ==
    CASE b.action \in {"click", "hover"} /\ b.coordinate = "" -> "coordinate"
      [] b.action = "type" /\ b.text = "" -> "text"
      [] OTHER -> ""

\* the parameter the visual branch reports missing, "" if none
MissingParamVisual(b) ==
    CASE b.action \in {"click", "hover"} /\ b.coordinate = "" -> "coordinate"
      [] b.action = "type" /\ b.text = "" -> "text"
      [] b.action = "resize" /\ b.size = "" -> "size"
      [] OTHER -> ""

\* the text-mode branch handles these; anything else is "not supported"
TextSupported(a) ==
    a \in {"click", "type", "scroll_down", "scroll_up", "hover", "back", "forward"}

\* ------------------------------------------------------------------------
\* The BrowserSession (services/browser/BrowserSession)

\* session operations other than launchBrowser and closeBrowser reject
\* while no page is open
PageMissing(open) == ~open

\* closeBrowser always succeeds and releases the Session
SessionAfterClose(open) == FALSE

\* launchBrowser supersedes a Session still open; the new one is open if
\* the launch resolved
SessionAfterLaunch(open, ok) == ok

CallerAcceptsWhileSuspended(p) == p \in {"idle", "goto2", "reload", "analyze"}

\* the caller processes one command end-to-end before it accepts the next:
\* browserActionTool is called only when its last call has returned
CallerAccepts(p) == p = "idle"

BrowsersAfterLaunchKeepsPrior(n, ok) == IF ok THEN n + 1 ELSE n

\* launchBrowser closes the browser the Session holds before it starts the
\* new one
BrowsersAfterLaunch(n, ok) == IF ok THEN 1 ELSE 0

\* closeBrowser closes the browser the Session holds
BrowsersAfterClose(n) == IF n > 0 THEN n - 1 ELSE 0

\* ------------------------------------------------------------------------
\* Frames
UsesVisualStrategyNeedsComputerUse(info) ==
    info.supportsImages /\ info.supportsComputerUse

\* line 262: the strategy of a launch
UsesVisualStrategy(info) == info.supportsImages

Locals == <<attempt, passes, pageAnalysis, browserActionResult, fallbackContent>>
History == <<entry, prev, dom, element>>

\* ------------------------------------------------------------------------
\* The caller hands a block to browserActionTool
Invoke ==
    /\ CallerAccepts(pc)
    /\ consecutiveMistakeCount < MaxMistakes
    /\ \E b \in Blocks : block' = b
    /\ pc' = "entry"
    /\ entry' = [mistakes |-> consecutiveMistakeCount, open |-> browserOpen]
    /\ UNCHANGED <<modelInfo, browserOpen, liveBrowsers, consecutiveMistakeCount, calls, pushed,
                   handled, error, prev, dom, element>>
    /\ UNCHANGED Locals

\* browserActionTool has returned; the caller takes the outcome and the
\* handler's locals are gone
Return ==
    /\ pc = "done"
    /\ pc' = "idle"
    /\ prev' = IF block.action = "close" /\ ~block.partial
               THEN [close |-> TRUE, pushed |-> pushed, handled |-> handled]
               ELSE NoPrev
    /\ block' = NoBlock
    /\ modelInfo' = NoInfo
    /\ entry' = NoEntry
    /\ calls' = <<>>
    /\ pushed' = <<>>
    /\ handled' = <<>>
    /\ attempt' = 0
    /\ passes' = <<>>
    /\ pageAnalysis' = NoAnalysis
    /\ browserActionResult' = EmptyResult
    /\ fallbackContent' = ""
    /\ error' = ""
    /\ element' = "unset"
    /\ UNCHANGED <<browserOpen, liveBrowsers, consecutiveMistakeCount, dom>>

\* the rejection is taken to the top-level handler
AfterEntryCloseRejectedCaught == "catch"

\* lines 208-221 precede the try at 223: a rejection of the closeBrowser
\* awaited there ends the invocation, whose promise rejects
AfterEntryCloseRejected == "done"

\* lines 208-219: missing or unsupported action word.  The closeBrowser
\* awaited here may reject; what the Session is then is not known
RejectInvalidAction ==
    /\ pc = "entry"
    /\ ActionInvalid(block.action)
    /\ IF ~CountsInvalidAction(block)
       THEN /\ UNCHANGED <<consecutiveMistakeCount, pushed, calls, browserOpen, liveBrowsers,
                           error>>
            /\ pc' = "done"
       ELSE /\ consecutiveMistakeCount' = Increment(consecutiveMistakeCount)
            /\ pushed' = Append(pushed, Result("missing_param", "action", "", <<>>, FALSE))
            /\ calls' = calls \o <<"pushToolResult", "closeBrowser">>
            /\ \/ /\ browserOpen' = SessionAfterClose(browserOpen)
                  /\ liveBrowsers' = BrowsersAfterClose(liveBrowsers)
                  /\ error' = error
                  /\ pc' = "done"
               \/ /\ \E stays \in {browserOpen, FALSE} :
                       /\ browserOpen' = stays
                       /\ liveBrowsers' = IF stays THEN liveBrowsers ELSE 0
                  /\ error' = "closeBrowser rejected"
                  /\ pc' = AfterEntryCloseRejected
    /\ UNCHANGED <<block, modelInfo, handled>>
    /\ UNCHANGED Locals
    /\ UNCHANGED History

\* lines 222-237: a partial block only echoes progress.  The launch echo
\* swallows its failure; the say of the other actions does not.
PartialEcho ==
    /\ pc = "entry"
    /\ ~ActionInvalid(block.action)
    /\ block.partial
    /\ \E echoOk \in BOOLEAN :
         IF block.action = "launch"
         THEN /\ calls' = Append(calls, "ask")
              /\ pc' = "done"
              /\ error' = error
         ELSE /\ calls' = Append(calls, "say")
              /\ pc' = IF echoOk THEN "done" ELSE "catch"
              /\ error' = IF echoOk THEN error ELSE "say rejected"
    /\ UNCHANGED <<block, modelInfo, browserOpen, liveBrowsers, consecutiveMistakeCount, pushed,
                   handled>>
    /\ UNCHANGED Locals
    /\ UNCHANGED History

\* lines 242-249: launch without url
LaunchMissingUrl ==
    /\ pc = "entry"
    /\ ~ActionInvalid(block.action)
    /\ ~block.partial
    /\ block.action = "launch"
    /\ UrlMissing(block)
    /\ consecutiveMistakeCount' = Increment(consecutiveMistakeCount)
    /\ pushed' = Append(pushed, Result("missing_param", "url", "", <<>>, FALSE))
    /\ calls' = calls \o <<"pushToolResult", "closeBrowser">>
    /\ browserOpen' = SessionAfterClose(browserOpen)
    /\ liveBrowsers' = BrowsersAfterClose(liveBrowsers)
    /\ pc' = "done"
    /\ UNCHANGED <<block, modelInfo, handled, error>>
    /\ UNCHANGED Locals
    /\ UNCHANGED History

\* lines 251-262: reset, approval, choice of strategy
LaunchApproval ==
    /\ pc = "entry"
    /\ ~ActionInvalid(block.action)
    /\ ~block.partial
    /\ block.action = "launch"
    /\ ~UrlMissing(block)
    /\ consecutiveMistakeCount' = Reset(consecutiveMistakeCount)
    /\ calls' = Append(calls, "askApproval")
    /\ \E didApprove \in BOOLEAN :
         IF ~didApprove
         THEN pc' = "done" /\ modelInfo' = modelInfo
         ELSE \E info \in ModelInfos :
                /\ modelInfo' = info
                /\ pc' = IF UsesVisualStrategy(info) THEN "launch_visual" ELSE "launch_text"
    /\ UNCHANGED <<block, browserOpen, liveBrowsers, pushed, handled, error>>
    /\ UNCHANGED Locals
    /\ UNCHANGED History

\* ------------------------------------------------------------------------
\* The analyzer and the retry loop

\* convertHtmlToMarkdown on the document classes: markup without text
\* leaves nothing after tag stripping and trim
MarkdownOf(html) == IF html = "tags" THEN "" ELSE "markdown"

analyzePageForTextBrowsingLosesError(ev) ==
    IF ev.ok
    THEN [content |-> IF ev.html = "none"
                      THEN "Error: No content available for conversion."
                      ELSE MarkdownOf(ev.html),
          elements |-> ev.elements,
          isSecurityBlock |-> ev.isSecurityBlock]
    ELSE [content |-> IF ev.diagOk
                      THEN "Error analyzing page (detailed state captured)"
                      ELSE "",
          elements |-> <<>>,
          isSecurityBlock |-> FALSE]

\* lines 13-157: one analyzer pass on the outcome of its page.evaluate
analyzePageForTextBrowsing(ev) ==
    IF ev.ok
    THEN [content |-> IF ev.html = "none"
                      THEN "Error: No content available for conversion."
                      ELSE MarkdownOf(ev.html),
          elements |-> ev.elements,
          isSecurityBlock |-> ev.isSecurityBlock]
    ELSE [content |-> IF ev.diagOk
                      THEN "Error analyzing page (detailed state captured)"
                      ELSE "Error analyzing page (state unknown)",
          elements |-> <<>>,
          isSecurityBlock |-> FALSE]

\* the evaluate of a pass on the page the callback holds: it rejects once
\* the Session has been closed under it
EvaluateOutcomesOn(open) ==
    IF PageMissing(open) THEN { ev \in EvaluateOutcomes : ~ev.ok }
    ELSE EvaluateOutcomes

AcceptedAnalysisWithoutElements(res) == [res EXCEPT !.elements = <<>>]

\* lines 317, 423: pageAnalysis = analysisResult
AcceptedAnalysis(res) == res

\* a fourth attempt
LoopContinuesOnceMore(a) == a <= MaxAttempts + 1

\* attempt <= 3
LoopContinues(a) == a <= MaxAttempts

\* lines 302-322: what the launch loop does with a pass
LaunchPassKind(res) ==
    IF res.isSecurityBlock THEN "block"
    ELSE IF res.content # "" \/ Len(res.elements) > 0 THEN "accept"
    ELSE "empty"

\* lines 422-427 (and 539, 623, 698): what the other loops do with a pass
ActionPassKind(res) ==
    IF res.content # "" \/ Len(res.elements) > 0 THEN "accept" ELSE "empty"

\* a reload after the last pass too
ReloadsAfterAlways(a) == a <= MaxAttempts

\* if (attempt < 3) before the reload
ReloadsAfter(a) == a < MaxAttempts

\* the extracted text is taken as it comes
ExtractedContentRaw(bodyText) == bodyText

\* lines 331-336: the content the raw extraction leaves (also 436-440)
ExtractedContent(bodyText) ==
    IF bodyText # "" THEN "Fallback content extracted"
    ELSE "Error: No content could be extracted even with fallback method."

NeedsFallbackExtractionNever(pa) == FALSE

\* if (!pageAnalysis.content)
NeedsFallbackExtraction(pa) == pa.content = ""

\* the initial pageAnalysis of each branch
InitialAnalysis ==
    [content |-> "Error: Page content initialization failed.",
     elements |-> <<>>, isSecurityBlock |-> FALSE]

FailTargetOuter(a) == IF a = "launch" THEN "fallback_fetch" ELSE "catch"

\* where a rejection inside the branch's try block lands: the fallback
\* fetch of a launch, the local catch of the other text actions
FailTarget(a) == IF a = "launch" THEN "fallback_fetch" ELSE "text_catch"

AfterSecondGotoRejectedSwallowed(a) == "analyze"

\* lines 291-297: the rejection of the relaxed goto is rethrown out of the
\* callback
AfterSecondGotoRejected(a) == FailTarget(a)

\* the rejection is swallowed and the analysis runs
AfterOwnCallRejectedSwallowed(a) == "analyze"

\* lines 413-418, 526-535, 686-690: the action's own call is awaited inside
\* the try block before the loop; its rejection leaves the try block
AfterOwnCallRejected(a) == FailTarget(a)

AfterReloadRejectedRethrown(a) == FailTarget(a)

\* lines 312-314: the rejection of the reload is logged and the loop goes on
AfterReloadRejected(a) == "analyze"

FallbackContentUsableAlways(c) == TRUE

\* line 361: if (fallbackContent)
FallbackContentUsable(c) == c # ""

TextResultImageFromScreenshot(r) == r.screenshot # ""

\* lines 861-867: the text-based payload is built without an images argument
TextResultImage(r) == FALSE

\* lines 415-417: the message of a rejected page.click quotes the selector
SelectorIn(err, b) ==
    IF err = "Failed to click element with selector" THEN b.coordinate ELSE ""

\* lines 471, 513, 589, 673, 747: the advice that ends the message of the
\* local catch
FailureHint(a) ==
    CASE a \in {"click", "hover"} ->
           "provide a CSS selector instead of coordinates, ensure the selector is unique"
      [] a = "type" -> "provide a CSS selector for the input field"
      [] a \in {"scroll_down", "scroll_up"} -> "ensure the browser is open"
      [] OTHER -> "ensure the browser is open and there is history"

\* the payload of a local catch: the error's message, the selector it quotes
\* and the advice
FailureResult(b, err) ==
    [Result("failed", b.action, err, <<>>, FALSE)
       EXCEPT !.selector = SelectorIn(err, b), !.hint = FailureHint(b.action)]

\* lines 354-360: how the doAction of the fallback fetch can end: whether
\* its callback ran, whether doAction resolved, and what the evaluate gave
FallbackOutcomes(open) ==
    IF PageMissing(open)
    THEN {[runs |-> FALSE, ok |-> FALSE, content |-> ""]}
    ELSE {o \in [runs : BOOLEAN, ok : BOOLEAN, content : {"", "fetched text"}] :
            ~o.runs => o.content = ""}

\* ------------------------------------------------------------------------
\* launch, visual strategy (lines 262-267)
LaunchBrowserVisual ==
    /\ pc = "launch_visual"
    /\ calls' = calls \o <<"say", "launchBrowser">>
    /\ \E ok \in BOOLEAN :
         /\ browserOpen' = SessionAfterLaunch(browserOpen, ok)
         /\ liveBrowsers' = BrowsersAfterLaunch(liveBrowsers, ok)
         /\ IF ok
            THEN pc' = "navigate" /\ error' = error
            ELSE pc' = "catch" /\ error' = "launchBrowser rejected"
    /\ UNCHANGED <<block, modelInfo, consecutiveMistakeCount, pushed, handled>>
    /\ UNCHANGED Locals
    /\ UNCHANGED History

NavigateToUrl ==
    /\ pc = "navigate"
    /\ calls' = Append(calls, "navigateToUrl")
    /\ \/ \E r \in SessionResults :
            /\ browserActionResult' = r
            /\ pc' = "format"
            /\ error' = error
       \/ /\ browserActionResult' = browserActionResult
          /\ pc' = "catch"
          /\ error' = "navigateToUrl rejected"
    /\ UNCHANGED <<block, modelInfo, browserOpen, liveBrowsers, consecutiveMistakeCount, pushed,
                   handled, attempt, passes, pageAnalysis>>
    /\ UNCHANGED fallbackContent
    /\ UNCHANGED History

\* ------------------------------------------------------------------------
\* launch, text strategy (lines 270-386)
LaunchBrowserText ==
    /\ pc = "launch_text"
    /\ calls' = Append(calls, "launchBrowser")
    /\ \E ok \in BOOLEAN :
         IF ok
         THEN /\ browserOpen' = SessionAfterLaunch(browserOpen, ok)
              /\ liveBrowsers' = BrowsersAfterLaunch(liveBrowsers, ok)
              /\ pageAnalysis' = InitialAnalysis
              /\ pc' = "doAction"
              /\ error' = error
         ELSE /\ browserOpen' = SessionAfterLaunch(browserOpen, ok)
              /\ liveBrowsers' = BrowsersAfterLaunch(liveBrowsers, ok)
              /\ pageAnalysis' = pageAnalysis
              /\ pc' = "fallback_fetch"
              /\ error' = "launchBrowser rejected"
    /\ UNCHANGED <<block, modelInfo, consecutiveMistakeCount, pushed, handled, attempt, passes, browserActionResult>>
    /\ UNCHANGED fallbackContent
    /\ UNCHANGED History

\* cline.browserSession.doAction(callback): rejects without a page;
\* otherwise it runs the callback, or (as the test doubles do) resolves
\* without running it
DoActionEnter ==
    /\ pc = "doAction"
    /\ calls' = Append(calls, "doAction")
    /\ IF PageMissing(browserOpen)
       THEN /\ pc' = FailTarget(block.action)
            /\ error' = "Browser is not launched"
            /\ attempt' = attempt
       ELSE \E runs \in BOOLEAN :
              /\ error' = error
              /\ IF ~runs THEN pc' = "doAction_return" /\ attempt' = attempt
                 ELSE IF block.action = "launch" THEN pc' = "goto1" /\ attempt' = attempt
                 ELSE IF block.action \in {"back", "forward"}
                      THEN pc' = "analyze" /\ attempt' = 1
                 ELSE pc' = "own_call" /\ attempt' = attempt
    /\ UNCHANGED <<block, modelInfo, browserOpen, liveBrowsers, consecutiveMistakeCount, pushed,
                   handled, passes, pageAnalysis, browserActionResult>>
    /\ UNCHANGED fallbackContent
    /\ UNCHANGED History

\* lines 286-287: first navigation, strict wait conditions
Goto1 ==
    /\ pc = "goto1"
    /\ \E ok \in BOOLEAN :
         IF ok
         THEN /\ calls' = Append(calls, "page.goto")
              /\ pc' = "analyze"
              /\ attempt' = 1
         ELSE /\ calls' = calls \o <<"page.goto", "console.error(Navigation error)">>
              /\ pc' = "goto2"
              /\ attempt' = attempt
    /\ UNCHANGED <<block, modelInfo, browserOpen, liveBrowsers, consecutiveMistakeCount, pushed,
                   handled, passes, pageAnalysis, browserActionResult, error>>
    /\ UNCHANGED fallbackContent
    /\ UNCHANGED History

\* lines 288-297: second navigation, relaxed; its rejection fails the callback
Goto2 ==
    /\ pc = "goto2"
    /\ \E ok \in BOOLEAN :
         IF ok
         THEN /\ calls' = Append(calls, "page.goto")
              /\ pc' = "analyze"
              /\ attempt' = 1
              /\ error' = error
         ELSE /\ calls' = calls \o <<"page.goto", "console.error(Fallback navigation error)">>
              /\ pc' = AfterSecondGotoRejected(block.action)
              /\ attempt' = IF AfterSecondGotoRejected(block.action) = "analyze"
                            THEN 1 ELSE attempt
              /\ error' = "Failed to navigate"
    /\ UNCHANGED <<block, modelInfo, browserOpen, liveBrowsers, consecutiveMistakeCount, pushed,
                   handled, passes, pageAnalysis, browserActionResult>>
    /\ UNCHANGED fallbackContent
    /\ UNCHANGED History

\* lines 300-323: one iteration of the launch loop
LaunchAnalyzePass ==
    /\ pc = "analyze"
    /\ block.action = "launch"
    /\ LoopContinues(attempt)
    /\ calls' = Append(calls, "analyze")
    /\ \E ev \in EvaluateOutcomesOn(browserOpen) :
         LET res == analyzePageForTextBrowsing(ev)
             kind == LaunchPassKind(res)
         IN  /\ passes' = Append(passes, res)
             /\ CASE kind = "block" ->
                       /\ pageAnalysis' =
                            [pageAnalysis EXCEPT !.content = "Security block detected. Retrying navigation..."]
                       /\ IF ReloadsAfter(attempt)
                          THEN pc' = "reload" /\ attempt' = attempt
                          ELSE pc' = "analyze" /\ attempt' = attempt + 1
                  [] kind = "accept" ->
                       /\ pageAnalysis' = AcceptedAnalysis(res)
                       /\ pc' = "after_loop"
                       /\ attempt' = attempt
                  [] kind = "empty" ->
                       /\ pageAnalysis' =
                            [pageAnalysis EXCEPT !.content = "Page content could not be loaded. Retrying..."]
                       /\ pc' = "analyze"
                       /\ attempt' = attempt + 1
    /\ UNCHANGED <<block, modelInfo, browserOpen, liveBrowsers, consecutiveMistakeCount, pushed,
                   handled, browserActionResult, error>>
    /\ UNCHANGED fallbackContent
    /\ UNCHANGED History

\* lines 307-315: reload after a block-flagged pass; a rejection is logged
\* and swallowed
Reload ==
    /\ pc = "reload"
    /\ \E ok \in (IF PageMissing(browserOpen) THEN {FALSE} ELSE BOOLEAN) :
         IF ok
         THEN /\ calls' = Append(calls, "page.reload")
              /\ pc' = "analyze"
         ELSE /\ calls' = calls \o <<"page.reload", "console.log">>
              /\ pc' = AfterReloadRejected(block.action)
    /\ attempt' = attempt + 1
    /\ UNCHANGED <<block, modelInfo, browserOpen, liveBrowsers, consecutiveMistakeCount, pushed,
                   handled, passes, pageAnalysis, browserActionResult, error>>
    /\ UNCHANGED fallbackContent
    /\ UNCHANGED History

\* lines 420-428, 537-545, 621-629, 696-704: one iteration of the loop of
\* click, scroll, hover, back and forward
ActionAnalyzePass ==
    /\ pc = "analyze"
    /\ block.action # "launch"
    /\ LoopContinues(attempt)
    /\ calls' = Append(calls, "analyze")
    /\ \E ev \in EvaluateOutcomesOn(browserOpen) :
         LET res == analyzePageForTextBrowsing(ev)
             kind == ActionPassKind(res)
         IN  /\ passes' = Append(passes, res)
             /\ IF kind = "accept"
                THEN /\ pageAnalysis' = AcceptedAnalysis(res)
                     /\ pc' = "after_loop"
                     /\ attempt' = attempt
                ELSE /\ pageAnalysis' =
                          [pageAnalysis EXCEPT !.content = "Page content could not be loaded. Retrying..."]
                     /\ pc' = "analyze"
                     /\ attempt' = attempt + 1
    /\ UNCHANGED <<block, modelInfo, browserOpen, liveBrowsers, consecutiveMistakeCount, pushed,
                   handled, browserActionResult, error>>
    /\ UNCHANGED fallbackContent
    /\ UNCHANGED History

\* the loop condition fails
LoopExit ==
    /\ pc = "analyze"
    /\ ~LoopContinues(attempt)
    /\ pc' = "after_loop"
    /\ UNCHANGED <<block, modelInfo, browserOpen, liveBrowsers, consecutiveMistakeCount, calls, pushed,
                   handled, error>>
    /\ UNCHANGED Locals
    /\ UNCHANGED History

\* lines 324-337, 429-441, ...: raw extraction of document.body.innerText
\* when the content is empty
FallbackExtraction ==
    /\ pc = "after_loop"
    /\ IF ~NeedsFallbackExtraction(pageAnalysis)
       THEN /\ pc' = "doAction_return"
            /\ UNCHANGED <<calls, pageAnalysis, error>>
       ELSE /\ calls' = Append(calls, "page.evaluate")
            /\ \/ /\ pc' = FailTarget(block.action)
                  /\ error' = "evaluate rejected"
                  /\ pageAnalysis' =
                       [pageAnalysis EXCEPT !.content = "Error: Page content could not be loaded after multiple retries."]
               \/ \E bodyText \in {"", "body text"} :
                    /\ pc' = "doAction_return"
                    /\ error' = error
                    /\ pageAnalysis' =
                         [pageAnalysis EXCEPT !.content = ExtractedContent(bodyText)]
    /\ UNCHANGED <<block, modelInfo, browserOpen, liveBrowsers, consecutiveMistakeCount, pushed,
                   handled, attempt, passes, browserActionResult>>
    /\ UNCHANGED fallbackContent
    /\ UNCHANGED History

\* lines 338-348: doAction settles and the launch result is assembled
LaunchDoActionReturn ==
    /\ pc = "doAction_return"
    /\ block.action = "launch"
    /\ \E ok \in BOOLEAN :
         IF ok
         THEN /\ browserActionResult' =
                   [logs |-> "Navigated using text-based browsing",
                    screenshot |-> "",
                    textContent |-> pageAnalysis.content,
                    interactiveElements |-> pageAnalysis.elements]
              /\ pc' = "format"
              /\ error' = error
         ELSE /\ browserActionResult' = browserActionResult
              /\ pc' = "fallback_fetch"
              /\ error' = "doAction rejected"
    /\ UNCHANGED <<block, modelInfo, browserOpen, liveBrowsers, consecutiveMistakeCount, calls, pushed,
                   handled, attempt, passes, pageAnalysis>>
    /\ UNCHANGED fallbackContent
    /\ UNCHANGED History

\* one cleanup whatever failed
FallbackFailureClosesOnce(ok) == <<"closeBrowser">>

\* lines 374-385: the closeBrowser calls of a failed fallback fetch: the
\* else branch of if (fallbackContent) closes and throws into the inner
\* catch, which closes again; a rejected doAction reaches the inner catch
\* only
FallbackFailureCloses(ok) ==
    IF ok THEN <<"closeBrowser", "closeBrowser">> ELSE <<"closeBrowser">>

\* lines 349-386: the fallback fetch of a failed text launch
FallbackFetch ==
    /\ pc = "fallback_fetch"
    /\ \E out \in FallbackOutcomes(browserOpen) :
         LET made == <<"console.error(Navigation failed)", "doAction">>
                     \o (IF out.runs THEN <<"page.evaluate">> ELSE <<>>)
         IN /\ fallbackContent' = out.content
            /\ IF out.ok /\ FallbackContentUsable(out.content)
               THEN \* lines 361-373
                    /\ calls' = calls \o made
                    /\ browserActionResult' =
                         [logs |-> "Navigated using text-based browsing with fallback fetch",
                          screenshot |-> "",
                          textContent |-> "Fallback content fetched",
                          interactiveElements |-> <<>>]
                    /\ pc' = "format"
                    /\ UNCHANGED <<browserOpen, liveBrowsers, error>>
               ELSE \* lines 374-385: the else branch closes and throws into
                    \* the inner catch, which closes again
                    /\ calls' = calls \o made \o FallbackFailureCloses(out.ok)
                    /\ browserOpen' = SessionAfterClose(browserOpen)
                    /\ liveBrowsers' = BrowsersAfterClose(liveBrowsers)
                    /\ pc' = "catch"
                    /\ error' = IF out.ok THEN "fallback fetch returned no content"
                                ELSE "fallback fetch rejected"
                    /\ browserActionResult' = browserActionResult
    /\ UNCHANGED <<block, modelInfo, consecutiveMistakeCount, pushed, handled, attempt, passes, pageAnalysis>>
    /\ UNCHANGED History

\* ------------------------------------------------------------------------
\* the other actions (lines 388-837)

\* lines 390-394: the capabilities are read and the branch is chosen
Dispatch ==
    /\ pc = "entry"
    /\ ~ActionInvalid(block.action)
    /\ ~block.partial
    /\ block.action # "launch"
    /\ \E info \in ModelInfos :
         /\ modelInfo' = info
         /\ pc' = IF TextModeIntercepts(info, block.action)
                  THEN "text_branch" ELSE "visual_branch"
    /\ UNCHANGED <<block, browserOpen, liveBrowsers, consecutiveMistakeCount, calls, pushed, handled,
                   error>>
    /\ UNCHANGED Locals
    /\ UNCHANGED History

TextUnsupportedClosing ==
    /\ pc = "text_branch"
    /\ ~TextSupported(block.action)
    /\ consecutiveMistakeCount' = Increment(consecutiveMistakeCount)
    /\ pushed' = Append(pushed, Result("not_supported", block.action, "", <<>>, FALSE))
    /\ calls' = calls \o <<"pushToolResult", "closeBrowser">>
    /\ browserOpen' = SessionAfterClose(browserOpen)
    /\ liveBrowsers' = BrowsersAfterClose(liveBrowsers)
    /\ pc' = "done"
    /\ UNCHANGED <<block, modelInfo, handled, error>>
    /\ UNCHANGED Locals
    /\ UNCHANGED History

\* lines 752-762: an action the text branch does not handle
TextUnsupported ==
    /\ pc = "text_branch"
    /\ ~TextSupported(block.action)
    /\ consecutiveMistakeCount' = Increment(consecutiveMistakeCount)
    /\ pushed' = Append(pushed, Result("not_supported", block.action, "", <<>>, FALSE))
    /\ calls' = Append(calls, "pushToolResult")
    /\ pc' = "done"
    /\ UNCHANGED <<block, modelInfo, browserOpen, liveBrowsers, handled, error>>
    /\ UNCHANGED Locals
    /\ UNCHANGED History

\* lines 396-401, 477-483, 595-600: a required parameter is missing
TextMissingParam ==
    /\ pc = "text_branch"
    /\ TextSupported(block.action)
    /\ MissingParamText(block) # ""
    /\ consecutiveMistakeCount' = Increment(consecutiveMistakeCount)
    /\ pushed' = Append(pushed, Result("missing_param", MissingParamText(block), "", <<>>, FALSE))
    /\ calls' = Append(calls, "pushToolResult")
    /\ pc' = "done"
    /\ UNCHANGED <<block, modelInfo, browserOpen, liveBrowsers, handled, error>>
    /\ UNCHANGED Locals
    /\ UNCHANGED History

\* lines 403-411, 485-487, 519-524, 601-609, 679-684: the try block is entered
TextBegin ==
    /\ pc = "text_branch"
    /\ TextSupported(block.action)
    /\ MissingParamText(block) = ""
    /\ pageAnalysis' = InitialAnalysis
    /\ pc' = IF block.action \in {"back", "forward"} THEN "history" ELSE "doAction"
    /\ UNCHANGED <<block, modelInfo, browserOpen, liveBrowsers, consecutiveMistakeCount, calls, pushed,
                   handled, attempt, passes, browserActionResult, error>>
    /\ UNCHANGED fallbackContent
    /\ UNCHANGED History

\* lines 686-690: goBack / goForward of the session
TextHistory ==
    /\ pc = "history"
    /\ calls' = Append(calls, IF block.action = "back" THEN "goBack" ELSE "goForward")
    /\ IF PageMissing(browserOpen)
       THEN pc' = FailTarget(block.action) /\ error' = "Browser is not launched"
       ELSE \E ok \in BOOLEAN :
              IF ok THEN pc' = "doAction" /\ error' = error
              ELSE /\ pc' = AfterOwnCallRejected(block.action)
                   /\ error' = "history navigation rejected"
    /\ UNCHANGED <<block, modelInfo, browserOpen, liveBrowsers, consecutiveMistakeCount, pushed,
                   handled>>
    /\ UNCHANGED Locals
    /\ UNCHANGED History

\* the page call of the action itself
OwnPageCall(a) ==
    CASE a = "click" -> "page.click"
      [] a = "type" -> "page.type"
      [] OTHER -> "page.evaluate"

\* every own call fails on a selector without a match
OwnCallResolvesNeedsMatch(a, found, ok) == found /\ ok

\* lines 413, 491: page.click and page.type reject when the selector matches
\* no element; lines 526-533, 611-617: the scroll evaluate uses no selector
\* and the hover evaluate tests if (element) before it dispatches
OwnCallResolves(a, found, ok) ==
    IF a \in {"click", "type"} THEN found /\ ok ELSE ok

\* lines 614-615: the events of a hover, dispatched on the element found
OwnCallEvents(a, found, ok) ==
    IF a = "hover" /\ found /\ ok
    THEN <<"dispatchEvent(mouseover)", "dispatchEvent(mouseenter)">>
    ELSE <<>>

\* lines 413-418, 491, 526-535, 611-619: the action's own page call
OwnCall ==
    /\ pc = "own_call"
    /\ \E ok \in BOOLEAN, found \in BOOLEAN :
         /\ found \/ block.action \in {"click", "type", "hover"}
         /\ element' = IF block.action \notin {"click", "type", "hover"} THEN "unset"
                       ELSE IF found THEN "found" ELSE "null"
         /\ calls' = Append(calls, OwnPageCall(block.action))
                        \o OwnCallEvents(block.action, found, ok)
         /\ IF OwnCallResolves(block.action, found, ok)
            THEN /\ error' = error
                 /\ IF block.action = "type"
                    THEN pc' = "doAction_return" /\ attempt' = attempt
                    ELSE pc' = "analyze" /\ attempt' = 1
            ELSE /\ error' = IF block.action = "click"
                             THEN "Failed to click element with selector"
                             ELSE IF ok THEN "No element found for selector"
                             ELSE "page call rejected"
                 /\ pc' = AfterOwnCallRejected(block.action)
                 /\ attempt' = attempt
    /\ UNCHANGED <<block, modelInfo, browserOpen, liveBrowsers, consecutiveMistakeCount, pushed,
                   handled, passes, pageAnalysis, browserActionResult>>
    /\ UNCHANGED fallbackContent
    /\ UNCHANGED <<entry, prev, dom>>

\* lines 442-465, 492-507, 560-583, 644-667, 718-741: doAction settles and
\* the text result is pushed
TextActionReturn ==
    /\ pc = "doAction_return"
    /\ block.action # "launch"
    /\ \E ok \in BOOLEAN :
         IF ok
         THEN /\ browserActionResult' =
                   IF block.action = "type"
                   THEN [logs |-> "Typed into element", screenshot |-> "",
                         textContent |-> "", interactiveElements |-> <<>>]
                   ELSE [logs |-> "Page updated", screenshot |-> "",
                         textContent |-> pageAnalysis.content,
                         interactiveElements |-> pageAnalysis.elements]
              /\ pushed' = Append(pushed,
                   IF block.action = "type"
                   THEN Result("text_action", block.action, "", <<>>, FALSE)
                   ELSE Result("text_action", block.action, pageAnalysis.content,
                               pageAnalysis.elements, FALSE))
              /\ calls' = Append(calls, "pushToolResult")
              /\ pc' = AfterTextResult
              /\ error' = error
         ELSE /\ browserActionResult' = browserActionResult
              /\ pushed' = pushed
              /\ calls' = calls
              /\ pc' = FailTarget(block.action)
              /\ error' = "doAction rejected"
    /\ UNCHANGED <<block, modelInfo, browserOpen, liveBrowsers, consecutiveMistakeCount, handled,
                   attempt, passes, pageAnalysis>>
    /\ UNCHANGED fallbackContent
    /\ UNCHANGED History

\* a local catch that cleans up as the top-level handler does
TextCatchClosing ==
    /\ pc = "text_catch"
    /\ consecutiveMistakeCount' = Increment(consecutiveMistakeCount)
    /\ pushed' = Append(pushed, FailureResult(block, error))
    /\ calls' = calls \o <<"closeBrowser", "pushToolResult">>
    /\ browserOpen' = SessionAfterClose(browserOpen)
    /\ liveBrowsers' = BrowsersAfterClose(liveBrowsers)
    /\ pc' = AfterLocalCatch
    /\ UNCHANGED <<block, modelInfo, handled, error>>
    /\ UNCHANGED Locals
    /\ UNCHANGED History

\* lines 466-475, 508-517, 584-593, 668-677, 742-751: the local catch
TextCatch ==
    /\ pc = "text_catch"
    /\ consecutiveMistakeCount' = Increment(consecutiveMistakeCount)
    /\ pushed' = Append(pushed, FailureResult(block, error))
    /\ calls' = Append(calls, "pushToolResult")
    /\ pc' = AfterLocalCatch
    /\ UNCHANGED <<block, modelInfo, browserOpen, liveBrowsers, handled, error>>
    /\ UNCHANGED Locals
    /\ UNCHANGED History

\* lines 765-793: validation of the visual branch
VisualMissingParam ==
    /\ pc = "visual_branch"
    /\ MissingParamVisual(block) # ""
    /\ consecutiveMistakeCount' = Increment(consecutiveMistakeCount)
    /\ pushed' = Append(pushed, Result("missing_param", MissingParamVisual(block), "", <<>>, FALSE))
    /\ calls' = calls \o <<"pushToolResult", "closeBrowser">>
    /\ browserOpen' = SessionAfterClose(browserOpen)
    /\ liveBrowsers' = BrowsersAfterClose(liveBrowsers)
    /\ pc' = "done"
    /\ UNCHANGED <<block, modelInfo, handled, error>>
    /\ UNCHANGED Locals
    /\ UNCHANGED History

\* the session primitive of the switch at lines 808-836
SessionPrimitive(a) ==
    CASE a = "click" -> "session.click"
      [] a = "hover" -> "session.hover"
      [] a = "type" -> "session.type"
      [] a = "scroll_down" -> "session.scrollDown"
      [] a = "scroll_up" -> "session.scrollUp"
      [] a = "resize" -> "session.resize"
      [] a = "back" -> "goBack"
      [] a = "forward" -> "goForward"
      [] OTHER -> "closeBrowser"

\* lines 795-836: reset, echo and the session primitive
VisualDispatch ==
    /\ pc = "visual_branch"
    /\ MissingParamVisual(block) = ""
    /\ consecutiveMistakeCount' = Reset(consecutiveMistakeCount)
    /\ calls' = calls \o <<"say", SessionPrimitive(block.action)>>
    /\ IF block.action = "close"
       THEN /\ browserOpen' = SessionAfterClose(browserOpen)
            /\ liveBrowsers' = BrowsersAfterClose(liveBrowsers)
            /\ browserActionResult' = EmptyResult
            /\ pc' = "format"
            /\ error' = error
       ELSE /\ browserOpen' = browserOpen
            /\ liveBrowsers' = liveBrowsers
            /\ IF PageMissing(browserOpen)
               THEN /\ browserActionResult' = browserActionResult
                    /\ pc' = "catch"
                    /\ error' = "Browser is not launched"
               ELSE \/ \E r \in SessionResults :
                         /\ browserActionResult' = r
                         /\ pc' = "format"
                         /\ error' = error
                    \/ /\ browserActionResult' = browserActionResult
                       /\ pc' = "catch"
                       /\ error' = "session primitive rejected"
    /\ UNCHANGED <<block, modelInfo, pushed, handled, attempt, passes, pageAnalysis>>
    /\ UNCHANGED fallbackContent
    /\ UNCHANGED History

\* lines 839-893: the result is formatted and pushed
FormatResult ==
    /\ pc = "format"
    /\ IF FormatsAsClose(block.action)
       THEN /\ pushed' = Append(pushed, Result("closed", "", "", <<>>, FALSE))
            /\ calls' = Append(calls, "pushToolResult")
       ELSE IF browserActionResult.textContent # ""
       THEN /\ pushed' = Append(pushed,
                 Result("text_result", block.action, browserActionResult.textContent,
                        browserActionResult.interactiveElements,
                        TextResultImage(browserActionResult)))
            /\ calls' = Append(calls, "pushToolResult")
       ELSE /\ pushed' = Append(pushed,
                 Result("visual_result", block.action, "", <<>>,
                        browserActionResult.screenshot # ""))
            /\ calls' = calls \o <<"say", "pushToolResult">>
    /\ pc' = "done"
    /\ UNCHANGED <<block, modelInfo, browserOpen, liveBrowsers, consecutiveMistakeCount, handled,
                   error>>
    /\ UNCHANGED Locals
    /\ UNCHANGED History

\* the top-level handler without its cleanup
OuterCatchWithoutCleanup ==
    /\ pc = "catch"
    /\ calls' = Append(calls, "handleError")
    /\ handled' = Append(handled, [context |-> "executing browser action", error |-> error])
    /\ pc' = "done"
    /\ UNCHANGED <<block, modelInfo, browserOpen, liveBrowsers, consecutiveMistakeCount, pushed, error>>
    /\ UNCHANGED Locals
    /\ UNCHANGED History

\* lines 895-900: the top-level handler
OuterCatch ==
    /\ pc = "catch"
    /\ browserOpen' = SessionAfterClose(browserOpen)
    /\ liveBrowsers' = BrowsersAfterClose(liveBrowsers)
    /\ calls' = calls \o <<"closeBrowser", "handleError">>
    /\ handled' = Append(handled, [context |-> "executing browser action", error |-> error])
    /\ pc' = "done"
    /\ UNCHANGED <<block, modelInfo, consecutiveMistakeCount, pushed, error>>
    /\ UNCHANGED Locals
    /\ UNCHANGED History

Next ==
    \/ Invoke
    \/ Return
    \/ RejectInvalidAction
    \/ PartialEcho
    \/ LaunchMissingUrl
    \/ LaunchApproval
    \/ LaunchBrowserVisual
    \/ NavigateToUrl
    \/ LaunchBrowserText
    \/ DoActionEnter
    \/ Goto1
    \/ Goto2
    \/ LaunchAnalyzePass
    \/ Reload
    \/ ActionAnalyzePass
    \/ LoopExit
    \/ FallbackExtraction
    \/ LaunchDoActionReturn
    \/ FallbackFetch
    \/ Dispatch
    \/ TextUnsupported
    \/ TextMissingParam
    \/ TextBegin
    \/ TextHistory
    \/ OwnCall
    \/ TextActionReturn
    \/ TextCatch
    \/ VisualMissingParam
    \/ VisualDispatch
    \/ FormatResult
    \/ OuterCatch

Spec == Init /\ [][Next]_vars

\* ------------------------------------------------------------------------
\* A caller that may issue close at any time

\* a close command handled while the retry loop of the command in flight
\* is suspended: it validates, resets the counter (795), echoes (797), closes
\* the Session (834) and pushes its confirmation (886) to its own caller
CloseWhileSuspended ==
    /\ pc \in {"analyze", "reload"}
    /\ \A i \in 1..Len(calls) : calls[i] # "close: closeBrowser"
    /\ consecutiveMistakeCount' = 0
    /\ calls' = calls \o <<"close: say", "close: closeBrowser", "close: pushToolResult">>
    /\ browserOpen' = SessionAfterClose(browserOpen)
    /\ liveBrowsers' = BrowsersAfterClose(liveBrowsers)
    /\ UNCHANGED <<pc, block, modelInfo, pushed, handled, error>>
    /\ UNCHANGED Locals
    /\ UNCHANGED History

NextCloseAnyTime == Next \/ CloseWhileSuspended

SpecCloseAnyTime == Init /\ [][NextCloseAnyTime]_vars

\* ------------------------------------------------------------------------
\* analyzePageForTextBrowsing on pages of its own (lines 13-157)

\* text.length < 30
SelectorTextLimit == 30

\* classes a selector is not built from: c.startsWith("ng-"), c.startsWith("js-")
FrameworkClasses == {"ng-scope", "js-hook"}

\* className.split(" ").filter((c) => c && !c.startsWith("ng-") && !c.startsWith("js-"))
RECURSIVE UsableClasses(_)
UsableClasses(cs) ==
    IF cs = <<>> THEN <<>>
    ELSE (IF Head(cs) = "" \/ Head(cs) \in FrameworkClasses THEN <<>> ELSE <<Head(cs)>>)
         \o UsableClasses(Tail(cs))

generateRobustSelectorClassFirst(el) ==
    IF UsableClasses(el.classes) # <<>> THEN "." \o Head(UsableClasses(el.classes))
    ELSE IF el.id # "" THEN "#" \o el.id
    ELSE "xpath://" \o el.tag \o "[" \o ToString(el.index + 1) \o "]"

\* lines 26-47
generateRobustSelector(el) ==
    IF el.id # "" THEN "#" \o el.id
    ELSE IF el.name # "" THEN el.tag \o "[name=\"" \o el.name \o "\"]"
    ELSE IF UsableClasses(el.classes) # <<>>
         THEN "." \o Head(UsableClasses(el.classes))
    ELSE IF el.dataId # "" THEN el.tag \o "[data-id=\"" \o el.dataId \o "\"]"
    ELSE IF el.dataTestId # ""
         THEN el.tag \o "[data-test-id=\"" \o el.dataTestId \o "\"]"
    ELSE IF el.dataTestid # ""
         THEN el.tag \o "[data-testid=\"" \o el.dataTestid \o "\"]"
    ELSE IF Len(el.text) > 0 /\ Len(el.text) < SelectorTextLimit
         THEN el.tag \o ":contains(\"" \o el.text \o "\")"
    ELSE "xpath://" \o el.tag \o "[" \o ToString(el.index + 1) \o "]"

\* content.includes(s): strings are sequences of words
Includes(content, s) == \E i \in 1..Len(content) : content[i] = s

IsSecurityBlockIgnoringCase(content) ==
    \E s \in {"Cloudflare", "cloudflare", "Attention Required", "attention required",
              "Security Check", "captcha", "CAPTCHA"} : Includes(content, s)

\* lines 102-107
IsSecurityBlock(content) ==
    \/ Includes(content, "Cloudflare")
    \/ Includes(content, "Attention Required")
    \/ Includes(content, "Security Check")
    \/ Includes(content, "captcha")

\* trimmed textContent of an element: none, one character, 29 and 30
TrimmedTexts ==
    {"", "G", "Go to the next page of search", "Go to the next page of results"}

\* class attributes, split at the spaces
ClassLists ==
    {<<>>, <<"btn">>, <<"ng-scope">>, <<"js-hook", "btn">>, <<"", "btn", "primary">>}

\* elements the inspection may meet: el with its tag and its index among
\* the matches of its querySelectorAll
DomElements ==
    [tag : {"button", "input"}, index : {0, 1}, id : {"", "go"}, name : {"", "q"},
     classes : ClassLists, dataId : {"", "7"}, dataTestId : {"", "t1"},
     dataTestid : {"", "t2"}, text : TrimmedTexts]

\* words of the markup (tags, attributes, scripts) and of the visible text
MarkupTexts ==
    {<<>>, <<"cloudflare">>, <<"re", "captcha">>, <<"Security Check">>,
     <<"attention required">>}

VisibleTexts == {<<>>, <<"Example">>, <<"Cloudflare">>, <<"Attention Required">>, <<"CAPTCHA">>}

\* pages: whether the inspection evaluate and the diagnostic evaluate
\* resolve, whether outerHTML is non-empty, and what the document holds;
\* the words vary on the pages without elements, the element on a page
\* with a heading
Pages ==
    { p \in [evaluates : BOOLEAN, diagnoses : BOOLEAN, serialized : BOOLEAN,
             markup : MarkupTexts, text : VisibleTexts,
             elements : {<<>>} \cup { <<el>> : el \in DomElements }] :
        /\ p.evaluates => p.diagnoses
        /\ ~p.evaluates => p.elements = <<>>
        /\ ~p.serialized => (p.markup = <<>> /\ p.text = <<>> /\ p.elements = <<>>)
        /\ p.elements # <<>> => (p.markup = <<>> /\ p.text = <<"Example">>) }

\* document.documentElement.outerHTML || ""
Serialized(page) == IF page.serialized THEN page.markup \o page.text ELSE <<>>

\* lines 18-111: what the inspection evaluate settles with on a page
InspectionOf(page) ==
    IF ~page.evaluates
    THEN [ok |-> FALSE, html |-> "none", elements |-> <<>>, isSecurityBlock |-> FALSE,
          diagOk |-> page.diagnoses]
    ELSE [ok |-> TRUE,
          html |-> IF ~page.serialized THEN "none"
                   ELSE IF page.text = <<>> THEN "tags" ELSE "text",
          elements |-> [i \in 1..Len(page.elements) |->
                          generateRobustSelector(page.elements[i])],
          isSecurityBlock |-> IsSecurityBlock(Serialized(page)),
          diagOk |-> TRUE]

InitAnalyzer ==
    /\ pc = "inspect"
    /\ dom \in Pages
    /\ HandlerAtRest

\* one call of analyzePageForTextBrowsing(page)
Inspect ==
    /\ pc = "inspect"
    /\ pageAnalysis' = analyzePageForTextBrowsing(InspectionOf(dom))
    /\ passes' = <<analyzePageForTextBrowsing(InspectionOf(dom))>>
    /\ calls' = <<"analyze">>
    /\ pc' = "inspected"
    /\ UNCHANGED <<block, modelInfo, browserOpen, liveBrowsers, consecutiveMistakeCount, pushed,
                   handled, attempt, browserActionResult, fallbackContent, error,
                   entry, prev, dom, element>>

SpecAnalyzer == InitAnalyzer /\ [][Inspect]_vars

\* ------------------------------------------------------------------------
\* Properties

\* operations of the BrowserSession
SessionCalls ==
    {"launchBrowser", "navigateToUrl", "doAction", "session.click", "session.hover",
     "session.type", "session.scrollDown", "session.scrollUp", "session.resize",
     "goBack", "goForward", "closeBrowser"}

\* calls of the page driver; an analyzer pass is made of evaluate calls
PageCalls ==
    {"page.goto", "page.click", "page.type", "page.evaluate", "page.reload", "analyze"}

NoCallIn(S) == \A i \in 1..Len(calls) : calls[i] \notin S

Called(c) == \E i \in 1..Len(calls) : calls[i] = c

\* the invocation has returned to the caller
Done == pc = "done"

Complete == block.action # "none" /\ ~block.partial

ClosedConfirmation == Result("closed", "", "", <<>>, FALSE)

MissingParamPushed == Len(pushed) >= 1 /\ pushed[1].kind = "missing_param"

\* payloads that report an executed action
SuccessKinds == {"text_result", "visual_result", "text_action", "closed"}

EmptyPass(res) == res.content = "" /\ Len(res.elements) = 0

AllPassesEmpty == \A i \in 1..Len(passes) : EmptyPass(passes[i])

\* C1: while and after a partial block is handled, unless its progress echo
\* failed, no session operation has been called, nothing has been pushed or
\* reported to handleError, and the mistake counter and the Session are as
\* they were on entry.
C1_PartialOnlyEchoes ==
    (block.action # "none" /\ block.partial /\ pc \in {"entry", "done"} /\ error = "")
        => /\ NoCallIn(SessionCalls)
           /\ pushed = <<>>
           /\ handled = <<>>
           /\ consecutiveMistakeCount = entry.mistakes
           /\ browserOpen = entry.open

C1_Witness ==
    /\ Done /\ block.partial /\ block.action = "click" /\ calls = <<"say">>
    /\ entry.open /\ entry.mistakes = 1

\* C2: a complete launch without url raises the mistake counter by exactly
\* 1, leaves the Session closed and calls neither askApproval,
\* launchBrowser, navigateToUrl nor goto.
C2_LaunchWithoutUrl ==
    (Done /\ Complete /\ block.action = "launch" /\ block.url = "")
        => /\ consecutiveMistakeCount = entry.mistakes + 1
           /\ ~browserOpen
           /\ NoCallIn({"askApproval", "launchBrowser", "navigateToUrl", "page.goto"})
           /\ Len(pushed) = 1 /\ pushed[1] = Result("missing_param", "url", "", <<>>, FALSE)

C2_Witness ==
    /\ Done /\ Complete /\ block.action = "launch" /\ block.url = ""
    /\ entry.open /\ entry.mistakes = 1

\* C3 (as claimed): after a complete command that validated and was
\* executed, the mistake counter is 0, in both capability modes.
C3_CounterZeroAfterSuccess ==
    (Done /\ Complete /\ handled = <<>> /\ Len(pushed) = 1
          /\ pushed[1].kind \in SuccessKinds)
        => consecutiveMistakeCount = 0

\* C4: a complete command rejected for a missing parameter raises the
\* mistake counter by exactly 1 and pushes exactly one missing-parameter
\* result, and up to its return no launchBrowser, no page-driving call and
\* no session action primitive has been called.
C4_MissingParamShortCircuits ==
    (Done /\ Complete /\ MissingParamPushed)
        => /\ consecutiveMistakeCount = entry.mistakes + 1
           /\ Len(pushed) = 1
           /\ handled = <<>>
           /\ NoCallIn((SessionCalls \ {"closeBrowser"}) \cup PageCalls)

C4_Witness ==
    /\ Done /\ Complete /\ MissingParamPushed
    /\ block.action = "type" /\ block.coordinate # "" /\ block.text = ""
    /\ ~modelInfo.supportsImages /\ entry.open /\ entry.mistakes = 1

\* the actions whose malformed command is to close the Session
ForceCloseActions == {"launch", "click", "hover", "type", "resize"}

\* C5 (as claimed): a missing-parameter rejection of launch, click, hover,
\* type or resize calls closeBrowser and leaves the Session closed, in both
\* modes; one of another supported action leaves the Session as it was.
C5_ValidationFailureClosesSession ==
    (Done /\ Complete /\ MissingParamPushed /\ block.action \in browserActions)
        => IF block.action \in ForceCloseActions
           THEN Called("closeBrowser") /\ ~browserOpen
           ELSE ~Called("closeBrowser") /\ browserOpen = entry.open

\* C6: a step of a complete command that starts in the top-level handler
\* calls closeBrowser and then handleError, once, with the context
\* "executing browser action", pushes nothing and returns; no other step
\* reports to handleError.
C6_TopLevelHandler ==
    [][ /\ (pc = "catch" /\ Complete)
            => /\ calls' = calls \o <<"closeBrowser", "handleError">>
               /\ handled' = <<[context |-> "executing browser action", error |-> error]>>
               /\ pushed' = pushed
               /\ pc' = "done"
        /\ (Len(handled') > Len(handled)) => pc = "catch"
      ]_vars

C6_Witness ==
    /\ Done /\ Complete /\ Len(handled) = 1 /\ entry.open
    /\ block.action = "click" /\ modelInfo.supportsImages

\* C7: a complete command other than launch issued while no Session is
\* open returns with exactly one outcome, a pushed result or a handleError
\* report; no position of the handler is a dead end.
C7_NoSessionOneOutcome ==
    /\ (pc \notin {"idle", "done"}) => ENABLED Next
    /\ (Done /\ Complete /\ block.action \in browserActions \ {"launch"} /\ ~entry.open)
          => Len(pushed) + Len(handled) = 1

C7_Witness ==
    /\ Done /\ Complete /\ block.action = "scroll_down" /\ ~entry.open
    /\ ~modelInfo.supportsImages /\ Called("doAction")
    /\ Len(pushed) = 1 /\ pushed[1].kind = "failed"

\* C8: a complete close that directly follows a complete close pushes the
\* same closed confirmation as the first, reports no error and leaves the
\* Session closed.
C8_CloseIdempotent ==
    (Done /\ Complete /\ block.action = "close" /\ prev.close)
        => /\ pushed = prev.pushed
           /\ pushed = <<ClosedConfirmation>>
           /\ handled = <<>> /\ prev.handled = <<>>
           /\ ~browserOpen

C8_Witness ==
    /\ Done /\ Complete /\ block.action = "close" /\ prev.close
    /\ ~entry.open /\ modelInfo.read /\ ~modelInfo.supportsImages

\* C9: a complete close, whatever the Session and the capability mode,
\* calls closeBrowser, leaves the Session closed and pushes the closed
\* confirmation as its only result.
C9_CloseAlwaysCloses ==
    (Done /\ Complete /\ block.action = "close")
        => /\ Called("closeBrowser")
           /\ ~browserOpen
           /\ pushed = <<ClosedConfirmation>>
           /\ handled = <<>>

C9_Witness ==
    /\ Done /\ Complete /\ block.action = "close" /\ entry.open
    /\ modelInfo.read /\ ~modelInfo.supportsImages /\ ~prev.close

\* C10: no retry loop runs more than 3 analyzer passes; when a loop has
\* ended and every pass it ran was empty (no content, no elements), it ran
\* exactly 3 passes, and the pageAnalysis the callback leaves has non-empty
\* content.
C10_RetryExhaustion ==
    /\ Len(passes) <= MaxAttempts
    /\ (pc \in {"after_loop", "doAction_return"} /\ passes # <<>> /\ AllPassesEmpty)
          => Len(passes) = MaxAttempts
    /\ (pc = "doAction_return" /\ passes # <<>> /\ AllPassesEmpty)
          => pageAnalysis.content # ""

C10_Witness ==
    /\ pc = "doAction_return" /\ Len(passes) = MaxAttempts /\ AllPassesEmpty
    /\ block.action = "hover"

\* a text-strategy invocation: the capabilities were read and lack images
TextMode == modelInfo.read /\ ~modelInfo.supportsImages

\* an approved, complete launch that took the text strategy
TextLaunch == block.action = "launch" /\ ~block.partial /\ TextMode

PassKind(res) ==
    IF block.action = "launch" THEN LaunchPassKind(res) ELSE ActionPassKind(res)

\* the loop ran all its passes and accepted none
Exhausted ==
    /\ Len(passes) = MaxAttempts
    /\ \A i \in 1..Len(passes) : PassKind(passes[i]) # "accept"

BlockSeen == \E i \in 1..Len(passes) : PassKind(passes[i]) = "block"

FirstGotoRejected == Called("console.error(Navigation error)")

SecondGotoRejected == Called("console.error(Fallback navigation error)")

\* the catch around the primary path of a text launch was entered
PrimaryThrew == Called("console.error(Navigation failed)")

OneTextResult == Len(pushed) = 1 /\ pushed[1].kind = "text_result"

\* C11 (as claimed): when a retry loop has run its 3 passes without
\* accepting one, the callback ends with one raw extraction of the body
\* text, made after the last pass, and the content of the page analysis is
\* what that extraction produced.
C11_ExhaustionRunsRawExtraction ==
    (pc = "doAction_return" /\ Exhausted)
        => /\ calls[Len(calls)] = "page.evaluate"
           /\ calls[Len(calls) - 1] = "analyze"
           /\ pageAnalysis.content \in
                {"Fallback content extracted",
                 "Error: No content could be extracted even with fallback method."}

\* C12: a text launch that hands a result to the formatter hands one with
\* non-empty textContent, and a text launch that ends without an error
\* report has pushed exactly one payload, in the text-based format, with
\* non-empty content; this covers a doAction that never runs its callback.
C12_LaunchTextNeverEmpty ==
    /\ (TextLaunch /\ pc = "doAction_return") => pageAnalysis.content # ""
    /\ (TextLaunch /\ pc = "format") => browserActionResult.textContent # ""
    /\ (TextLaunch /\ Done /\ handled = <<>>)
          => OneTextResult /\ pushed[1].content # ""

C12_Witness ==
    /\ TextLaunch /\ Done
    /\ calls = <<"askApproval", "launchBrowser", "doAction", "pushToolResult">>
    /\ OneTextResult /\ pushed[1].content = InitialAnalysis.content

\* C13: in a text launch in which a pass was flagged as a block page and
\* no call other than a reload was rejected, handleError and closeBrowser
\* are never called, the fallback fetch is not entered, the Session stays
\* open, and the command ends with exactly one text-based payload.
C13_BlockPageAloneIsNoError ==
    (TextLaunch /\ BlockSeen /\ error = "")
        => /\ handled = <<>>
           /\ NoCallIn({"closeBrowser", "handleError"})
           /\ ~PrimaryThrew
           /\ Count(calls, "doAction") = 1
           /\ browserOpen
           /\ Done => OneTextResult

C13_Witness ==
    /\ TextLaunch /\ Done /\ Len(passes) = MaxAttempts
    /\ \A i \in 1..Len(passes) : passes[i].isSecurityBlock
    /\ Called("console.log")
    /\ OneTextResult /\ browserOpen

\* C14: in a text launch goto is called at most twice; the second call is
\* made exactly when the first was rejected; every analyzer pass comes
\* after a goto that resolved; and when both were rejected no pass runs and
\* the handler goes on to the fallback fetch.
C14_GotoAtMostTwice ==
    TextLaunch =>
        /\ Count(calls, "page.goto") <= 2
        /\ Count(calls, "page.goto") = 2 => FirstGotoRejected
        /\ FirstGotoRejected => (Count(calls, "page.goto") = 2 \/ pc = "goto2")
        /\ Called("analyze")
             => /\ Called("page.goto")
                /\ ~SecondGotoRejected
                /\ \A i, j \in 1..Len(calls) :
                     (calls[i] = "page.goto" /\ calls[j] = "analyze") => i < j
        /\ SecondGotoRejected
             => /\ passes = <<>>
                /\ NoCallIn({"analyze"})
                /\ pc = "fallback_fetch" \/ PrimaryThrew

C14_Witness ==
    /\ TextLaunch /\ Done /\ SecondGotoRejected
    /\ Count(calls, "page.goto") = 2
    /\ OneTextResult /\ pushed[1].content = "Fallback content fetched"

\* C15: a text launch ends with a handleError report exactly when its
\* primary path threw and the fallback fetch was rejected or produced empty
\* content; otherwise it ends with one text-based payload; and when it ends
\* with a report closeBrowser was called and the Session is closed.
C15_ErrorIffFallbackFails ==
    (TextLaunch /\ Done)
        => /\ (handled # <<>>)
                <=> (PrimaryThrew /\ (error = "fallback fetch rejected"
                                      \/ fallbackContent = ""))
           /\ handled = <<>> => OneTextResult
           /\ handled # <<>>
                => /\ Len(handled) = 1
                   /\ pushed = <<>>
                   /\ Called("closeBrowser")
                   /\ ~browserOpen

C15_Witness ==
    /\ TextLaunch /\ Done /\ SecondGotoRejected
    /\ fallbackContent = "" /\ error = "fallback fetch returned no content"
    /\ Len(handled) = 1
    /\ Count(calls, "closeBrowser") = 3

\* C16: when page.click rejects for a complete text-mode click, neither
\* closeBrowser nor handleError is called, exactly one payload is pushed,
\* it quotes the selector of the command and advises a unique CSS selector,
\* and the Session is as it was on entry.
C16_ClickRejectionStaysLocal ==
    (Done /\ Complete /\ TextMode /\ block.action = "click"
       /\ error = "Failed to click element with selector")
        => /\ NoCallIn({"closeBrowser", "handleError"})
           /\ handled = <<>>
           /\ Len(pushed) = 1
           /\ pushed[1].kind = "failed"
           /\ pushed[1].selector = block.coordinate
           /\ pushed[1].hint = FailureHint("click")
           /\ browserOpen = entry.open

C16_Witness ==
    /\ Done /\ TextMode /\ block.action = "click" /\ block.coordinate = "#go"
    /\ error = "Failed to click element with selector"
    /\ calls = <<"doAction", "page.click", "pushToolResult">>
    /\ pushed[1].selector = "#go" /\ browserOpen

\* C17: no pushed payload carries both an image and text content or
\* elements; the text-based payloads carry no image; and the result a
\* text-strategy branch assembles has no screenshot, whatever the Session
\* returned.
C17_ScreenshotOrTextNeverBoth ==
    /\ \A i \in 1..Len(pushed) :
         /\ pushed[i].image
              => (pushed[i].kind = "visual_result" /\ pushed[i].content = ""
                  /\ pushed[i].elements = <<>>)
         /\ pushed[i].kind \in {"text_result", "text_action"} => ~pushed[i].image
    /\ (TextMode /\ block.action # "close") => browserActionResult.screenshot = ""

C17_Witness ==
    /\ Done /\ modelInfo.read /\ modelInfo.supportsImages
    /\ browserActionResult.screenshot = "image"
    /\ browserActionResult.textContent = "session text"
    /\ OneTextResult /\ ~pushed[1].image

\* C18: in an approved, complete launch supportsImages alone selects the
\* strategy. With images: say, launchBrowser, then navigateToUrl, and no
\* doAction, goto or analyzer pass. Without: launchBrowser, then doAction,
\* and never navigateToUrl. supportsComputerUse plays no part.
C18_ImagesSelectStrategy ==
    (block.action = "launch" /\ ~block.partial /\ modelInfo.read)
        => IF modelInfo.supportsImages
           THEN /\ NoCallIn({"doAction"} \cup PageCalls)
                /\ \A i \in 1..Len(calls) :
                     /\ i <= 3 => calls[i] = <<"askApproval", "say", "launchBrowser">>[i]
                     /\ calls[i] = "navigateToUrl" => i = 4
                /\ Done => Called("launchBrowser")
                /\ (Done /\ error # "launchBrowser rejected") => Called("navigateToUrl")
           ELSE /\ NoCallIn({"navigateToUrl"})
                /\ \A i \in 1..Len(calls) :
                     i <= 2 => calls[i] = <<"askApproval", "launchBrowser">>[i]
                /\ Done => (Called("launchBrowser") /\ Called("doAction"))

C18_Witness ==
    /\ Done /\ block.action = "launch"
    /\ modelInfo.read /\ ~modelInfo.supportsImages /\ modelInfo.supportsComputerUse
    /\ Called("page.goto") /\ Called("analyze")
    /\ OneTextResult

\* C19: a text-mode command answered with the "not supported" payload makes
\* no session call, reports nothing to handleError, pushes exactly that one
\* payload and leaves the Session as it was on entry.
C19_NotSupportedLeavesSession ==
    (TextMode /\ Len(pushed) >= 1 /\ pushed[1].kind = "not_supported")
        => /\ NoCallIn(SessionCalls \cup PageCalls \cup {"handleError"})
           /\ handled = <<>>
           /\ Len(pushed) = 1
           /\ browserOpen = entry.open

C19_Witness ==
    /\ Done /\ TextMode /\ entry.open /\ browserOpen
    /\ pushed = <<Result("not_supported", block.action, "", <<>>, FALSE)>>
    /\ calls = <<"pushToolResult">>

\* C20 (as claimed): a complete resize without size is answered with the
\* missing-parameter error for size, and a complete resize with a size
\* reaches the session's resize primitive, in both capability modes.
C20_ResizeSupportedInBothModes ==
    (Done /\ Complete /\ block.action = "resize")
        => /\ block.size = ""
                => pushed = <<Result("missing_param", "size", "", <<>>, FALSE)>>
           /\ block.size # "" => Called("session.resize")

\* C20 (amended): resize is a command of the visual branch only. With
\* images, a complete resize without size is answered with the
\* missing-parameter error for size and the session's resize is not called,
\* and one with a size reaches the session's resize primitive. Without
\* images every complete resize, with or without size, is answered with the
\* "not supported" payload and the session's resize is not called.
C20_ResizeOnlyInVisualBranch ==
    (Done /\ Complete /\ block.action = "resize" /\ modelInfo.read)
        => IF modelInfo.supportsImages
           THEN /\ block.size = ""
                     => /\ pushed = <<Result("missing_param", "size", "", <<>>, FALSE)>>
                        /\ NoCallIn({"session.resize"})
                /\ block.size # "" => Called("session.resize")
           ELSE /\ pushed = <<Result("not_supported", "resize", "", <<>>, FALSE)>>
                /\ NoCallIn({"session.resize"})

C20_Witness ==
    /\ Done /\ Complete /\ block.action = "resize" /\ block.size = "900,600"
    /\ modelInfo.read /\ modelInfo.supportsImages
    /\ Called("session.resize")
    /\ Len(pushed) = 1 /\ pushed[1].kind \in {"visual_result", "text_result"}

Accepted == passes # <<>> /\ PassKind(passes[Len(passes)]) = "accept"

AcceptedPass == passes[Len(passes)]

TextPayload == Len(pushed) = 1 /\ pushed[1].kind \in {"text_result", "text_action"}

\* what the raw extraction of the body text can leave as content
ExtractionTexts ==
    {"Fallback content extracted",
     "Error: No content could be extracted even with fallback method."}

C23_AnalyzerNeverThrows ==
    /\ pc = "inspect" => ENABLED Inspect
    /\ (pc = "inspected" /\ ~dom.evaluates)
          => /\ pageAnalysis.content \in
                  {"Error analyzing page (detailed state captured)",
                   "Error analyzing page (state unknown)"}
             /\ pageAnalysis.content # ""
             /\ pageAnalysis.elements = <<>>
             /\ ~pageAnalysis.isSecurityBlock

C23_Witness ==
    /\ pc = "inspected" /\ ~dom.evaluates /\ ~dom.diagnoses
    /\ pageAnalysis.content = "Error analyzing page (state unknown)"

C26_CloseStopsLoop ==
    \A i, j \in 1..Len(calls) :
        (calls[i] = "close: closeBrowser" /\ i < j)
            => calls[j] \notin {"analyze", "page.reload"}

\* C27: a pass whose inspection ran flags the page as a security block
\* exactly when the serialized document holds one of the four literals
\* "Cloudflare", "Attention Required", "Security Check", "captcha" in that
\* very spelling; a document that holds them only in another case is not
\* flagged.
C27_BlockIffLiteral ==
    (pc = "inspected" /\ dom.evaluates)
        => (pageAnalysis.isSecurityBlock
              <=> \E i \in 1..Len(Serialized(dom)) :
                    Serialized(dom)[i] \in {"Cloudflare", "Attention Required",
                                            "Security Check", "captcha"})

C27_Witness ==
    /\ pc = "inspected" /\ dom.evaluates
    /\ dom.markup = <<"cloudflare">> /\ dom.text = <<"CAPTCHA">>
    /\ ~pageAnalysis.isSecurityBlock

C27_WitnessFlagged ==
    /\ pc = "inspected" /\ dom.evaluates
    /\ dom.markup = <<"re", "captcha">> /\ dom.text = <<"Example">>
    /\ pageAnalysis.isSecurityBlock

\* C28: the selector of an element is the one of the first rule that
\* applies to it, in the order id, name, first class that is neither ng- nor
\* js-, data-id, data-test-id, data-testid, trimmed text of 1 to 29
\* characters, position; an element with an id and a class gets "#id".
C28_FirstApplicableRule ==
    (pc = "inspected" /\ dom.elements # <<>>)
        => LET el == dom.elements[1]
               sel == pageAnalysis.elements[1]
               usable == { i \in 1..Len(el.classes) :
                             el.classes[i] \notin {"", "ng-scope", "js-hook"} }
               first == CHOOSE i \in usable : \A j \in usable : i <= j
               rules == <<el.id # "", el.name # "", usable # {}, el.dataId # "",
                          el.dataTestId # "", el.dataTestid # "",
                          Len(el.text) \in 1..29, TRUE>>
               rule == CHOOSE r \in 1..8 : rules[r] /\ \A q \in 1..(r - 1) : ~rules[q]
           IN  /\ Len(pageAnalysis.elements) = 1
               /\ rule = 1 => sel = "#" \o el.id
               /\ rule = 2 => sel = el.tag \o "[name=\"" \o el.name \o "\"]"
               /\ rule = 3 => sel = "." \o el.classes[first]
               /\ rule = 4 => sel = el.tag \o "[data-id=\"" \o el.dataId \o "\"]"
               /\ rule = 5 => sel = el.tag \o "[data-test-id=\"" \o el.dataTestId \o "\"]"
               /\ rule = 6 => sel = el.tag \o "[data-testid=\"" \o el.dataTestid \o "\"]"
               /\ rule = 7 => sel = el.tag \o ":contains(\"" \o el.text \o "\")"
               /\ rule = 8 => sel = "xpath://" \o el.tag
                                      \o (IF el.index = 0 THEN "[1]" ELSE "[2]")

C28_Witness ==
    /\ pc = "inspected" /\ dom.elements # <<>>
    /\ dom.elements[1].id = "go" /\ dom.elements[1].classes = <<"", "btn", "primary">>
    /\ pageAnalysis.elements = <<"#go">>

\* the number of the analyzer pass that precedes position i of the call log
PassBefore(i) == Count(SubSeq(calls, 1, i - 1), "analyze")

\* position in the call log of the pass numbered k
PassPosition(k) ==
    CHOOSE i \in 1..Len(calls) : calls[i] = "analyze" /\ PassBefore(i) = k - 1

\* C29: in a text launch page.reload is called directly after a pass
\* numbered 1 or 2 that was flagged as a block page and at no other point
\* (not after pass 3, not after a pass that was not flagged), hence at most
\* twice; each such pass is followed by its reload; and a reload that
\* rejects is logged and followed by the next pass.
C29_ReloadOnlyAfterEarlyBlock ==
    TextLaunch =>
        /\ Count(calls, "page.reload") <= 2
        /\ \A i \in 1..Len(calls) :
             calls[i] = "page.reload"
                => /\ i > 1 /\ calls[i - 1] = "analyze"
                   /\ PassBefore(i) \in {1, 2}
                   /\ passes[PassBefore(i)].isSecurityBlock
        /\ \A k \in 1..Len(passes) :
             (passes[k].isSecurityBlock /\ k < MaxAttempts)
                => \/ k = Len(passes) /\ pc = "reload"
                   \/ /\ PassPosition(k) < Len(calls)
                      /\ calls[PassPosition(k) + 1] = "page.reload"
        /\ \A k \in 1..Len(passes) :
             (~passes[k].isSecurityBlock \/ k = MaxAttempts)
                => \/ PassPosition(k) = Len(calls)
                   \/ calls[PassPosition(k) + 1] # "page.reload"
        /\ \A i \in 1..Len(calls) :
             (calls[i] = "page.reload" /\ i < Len(calls) /\ calls[i + 1] = "console.log")
                => IF i + 1 = Len(calls) THEN pc = "analyze"
                   ELSE calls[i + 2] = "analyze"

C29_Witness ==
    /\ TextLaunch /\ Done
    /\ Len(passes) = MaxAttempts
    /\ passes[1].isSecurityBlock /\ passes[2].isSecurityBlock /\ passes[3].isSecurityBlock
    /\ Count(calls, "page.reload") = 2
    /\ Count(calls, "console.log") = 1
    /\ calls[Len(calls) - 1] = "analyze"

\* a complete text-strategy click, hover, scroll, back or forward whose
\* retry loop has run
TextActionLoop ==
    /\ TextMode /\ ~block.partial
    /\ block.action \notin {"launch", "close"}
    /\ passes # <<>>

\* C30 (as claimed): the loop after a text-mode click, hover, scroll, back
\* or forward treats its passes as the launch loop does: the pass it accepts
\* is never one flagged as a block page, and each block-flagged pass
\* numbered 1 or 2 is followed by a reload.
C30_ActionLoopFollowsLaunchPolicy ==
    TextActionLoop =>
        /\ \A k \in 1..Len(passes) :
             (passes[k].isSecurityBlock /\ k < MaxAttempts)
                => \/ k = Len(passes) /\ pc = "reload"
                   \/ /\ PassPosition(k) < Len(calls)
                      /\ calls[PassPosition(k) + 1] = "page.reload"
        /\ (pc \in {"after_loop", "format", "done"} /\ error = "")
             => (LaunchPassKind(passes[Len(passes)]) = "accept" \/ Len(passes) = MaxAttempts)
        /\ (pc \in {"after_loop", "format", "done"} /\ error = ""
              /\ pageAnalysis = passes[Len(passes)])
             => ~pageAnalysis.isSecurityBlock

\* the call that performs the action itself
OwnCallOf(a) ==
    CASE a = "back" -> "goBack"
      [] a = "forward" -> "goForward"
      [] OTHER -> OwnPageCall(a)

\* the messages of a rejected own call
OwnCallRejections ==
    {"Failed to click element with selector", "page call rejected",
     "history navigation rejected"}

\* C31: in a text-mode click, scroll_down, scroll_up, back or forward every
\* analyzer pass comes after the action's own call (page.click, the scroll
\* evaluate, goBack / goForward), which was issued once and resolved; when
\* that call rejects no analyzer pass runs, closeBrowser and handleError
\* are not called, the Session is as it was, and the one payload pushed is
\* the failure result.
C31_OwnCallBeforeAnalysis ==
    (TextMode /\ Complete
       /\ block.action \in {"click", "scroll_down", "scroll_up", "back", "forward"})
        => /\ \A i \in 1..Len(calls) :
                calls[i] = "analyze"
                   => /\ \E j \in 1..(i - 1) : calls[j] = OwnCallOf(block.action)
                      /\ error \notin OwnCallRejections
           /\ error \in OwnCallRejections
                => /\ passes = <<>>
                   /\ NoCallIn({"analyze", "page.reload", "closeBrowser", "handleError"})
                   /\ calls[Len(calls)] \in {OwnCallOf(block.action), "pushToolResult"}
                   /\ handled = <<>>
                   /\ browserOpen = entry.open
                   /\ Done => (Len(pushed) = 1 /\ pushed[1].kind = "failed"
                                 /\ pushed[1].content = error)

C31_Witness ==
    /\ Done /\ TextMode /\ block.action = "back"
    /\ error = "history navigation rejected"
    /\ calls = <<"goBack", "pushToolResult">>
    /\ passes = <<>> /\ browserOpen
    /\ pushed[1].kind = "failed"

\* a pass whose inspection evaluate rejected: the analyzer returned one of
\* its formatted error messages
RejectedPass(res) ==
    res.content \in {"Error analyzing page (detailed state captured)",
                     "Error analyzing page (state unknown)"}

\* C32 (as claimed): a pass whose page.evaluate rejected counts as a failed
\* attempt: while attempts remain the loop goes on to another pass, and the
\* output of the failed pass is not taken as the page analysis.
C32_RejectedPassIsRetried ==
    (TextMode /\ passes # <<>> /\ RejectedPass(passes[Len(passes)])
       /\ Len(passes) < MaxAttempts /\ error = "")
        => /\ pc \in {"analyze", "reload"}
           /\ pageAnalysis # passes[Len(passes)]

\* a complete launch with a url whose approval was denied: the handler
\* returned before it read the capabilities
LaunchDenied ==
    /\ block.action = "launch" /\ ~block.partial /\ block.url # ""
    /\ Called("askApproval") /\ ~modelInfo.read

\* outcomes reported to the caller
Outcomes == Count(calls, "pushToolResult") + Count(calls, "handleError")

\* C33: a complete command that has returned has reported exactly one
\* outcome, one pushed result or one handleError report and not both,
\* except the launch whose approval was denied, which has reported none;
\* and no command reports a second outcome on its way.
C33_ExactlyOneOutcome ==
    /\ Complete => (Outcomes <= 1 /\ Len(pushed) + Len(handled) = Outcomes)
    /\ (Done /\ Complete)
          => IF LaunchDenied
             THEN Outcomes = 0 /\ pushed = <<>> /\ handled = <<>>
             ELSE /\ Outcomes = 1
                  /\ Len(pushed) = 1 <=> handled = <<>>

C33_Witness ==
    /\ Done /\ Complete /\ TextLaunch
    /\ Count(calls, "handleError") = 1 /\ Len(handled) = 1
    /\ pushed = <<>> /\ NoCallIn({"pushToolResult"})

\* C34: when the approval of a complete launch with a url is denied, the
\* only call made is askApproval (no launchBrowser, navigateToUrl, doAction
\* or closeBrowser), the Session is as it was on entry, nothing is pushed or
\* handed to handleError, and the mistake counter is 0 whatever it was.
C34_DeniedLaunchOnlyResets ==
    (Done /\ LaunchDenied)
        => /\ calls = <<"askApproval">>
           /\ NoCallIn({"launchBrowser", "navigateToUrl", "doAction", "closeBrowser"})
           /\ browserOpen = entry.open
           /\ liveBrowsers = (IF entry.open THEN 1 ELSE 0)
           /\ pushed = <<>> /\ handled = <<>>
           /\ consecutiveMistakeCount = 0

C34_Witness ==
    /\ Done /\ LaunchDenied
    /\ entry.mistakes > 0 /\ entry.open
    /\ consecutiveMistakeCount = 0 /\ browserOpen

\* a complete text-mode click, type, scroll, hover, back or forward in
\* which a session or page call rejected
TextRuntimeFailure ==
    /\ TextMode /\ Complete
    /\ block.action \in {"click", "type", "scroll_down", "scroll_up", "hover",
                         "back", "forward"}
    /\ error # ""

\* the return to the caller and the next invocation leave the counter and
\* the Session alone
KeptBetweenCommands ==
    pc \in {"done", "idle"}
        => (consecutiveMistakeCount' = consecutiveMistakeCount /\ browserOpen' = browserOpen)

\* C35: a text-mode click, type, scroll, hover, back or forward in which a
\* session or page call rejected ends with the counter one above its value
\* on entry, one "Failed to ..." result pushed, closeBrowser and handleError
\* not called and the Session as it was; and between two commands neither
\* the counter nor the Session changes, so n such failures in a row raise
\* the counter by n and leave the Session open.
C35_TextFailureCountsOnce ==
    /\ [](TextRuntimeFailure
            => /\ NoCallIn({"closeBrowser", "handleError"})
               /\ handled = <<>>
               /\ browserOpen = entry.open
               /\ consecutiveMistakeCount \in {entry.mistakes, entry.mistakes + 1}
               /\ Done => /\ consecutiveMistakeCount = entry.mistakes + 1
                          /\ Len(pushed) = 1 /\ pushed[1].kind = "failed"
                          /\ pushed[1].content = error)
    /\ [][KeptBetweenCommands]_vars

C35_Witness ==
    /\ Done /\ TextRuntimeFailure /\ block.action = "scroll_down"
    /\ entry.mistakes = 1 /\ consecutiveMistakeCount = 2
    /\ entry.open /\ browserOpen
    /\ pushed[1].kind = "failed"

\* the loop accepted a pass that has elements and no content
AcceptedElementsOnly ==
    /\ TextMode /\ Accepted
    /\ AcceptedPass.content = "" /\ Len(AcceptedPass.elements) > 0

\* evaluate calls the callback made after its last analyzer pass, up to the
\* point where doAction settled
EvaluatesAfterLoop ==
    LET from == PassPosition(Len(passes)) + 1
        stops == { i \in from..Len(calls) :
                     calls[i] \in {"console.error(Navigation failed)", "pushToolResult"} }
        to == IF stops = {} THEN Len(calls)
              ELSE (CHOOSE i \in stops : \A j \in stops : i <= j) - 1
    IN  Count(SubSeq(calls, from, to), "page.evaluate")

\* C36: when the loop accepted a pass with elements and empty content, the
\* raw extraction of the body text is called exactly once after the loop
\* (and not before the loop has ended), the content of the page analysis is
\* non-empty from then on, its elements are those of the accepted pass, and
\* the text payload of the command carries that content and those elements.
C36_ElementsOnlyPassExtractsOnce ==
    AcceptedElementsOnly
        => IF pc = "after_loop"
           THEN EvaluatesAfterLoop = 0 /\ pageAnalysis = AcceptedPass
           ELSE /\ EvaluatesAfterLoop = 1
                /\ pageAnalysis.content # ""
                /\ pageAnalysis.elements = AcceptedPass.elements
                /\ (Done /\ TextPayload /\ ~PrimaryThrew)
                      => /\ pushed[1].content = pageAnalysis.content
                         /\ pushed[1].content \in ExtractionTexts
                         /\ pushed[1].elements = AcceptedPass.elements

C36_Witness ==
    /\ Done /\ AcceptedElementsOnly /\ block.action = "click"
    /\ passes = <<[content |-> "", elements |-> <<"#go">>, isSecurityBlock |-> FALSE]>>
    /\ calls = <<"doAction", "page.click", "analyze", "page.evaluate", "pushToolResult">>
    /\ pushed = <<Result("text_action", "click", "Fallback content extracted",
                         <<"#go">>, FALSE)>>

\* C37: a complete text-mode hover whose selector matched no element and
\* whose calls did not reject dispatches no event, runs the analysis, pushes
\* the success result of a hover and leaves the counter as it was, the
\* Session open and handleError uncalled; a click whose selector matched
\* no element runs no analysis, pushes the failure result and raises the
\* counter by one.
C37_HoverWithoutMatchSucceeds ==
    /\ (Done /\ TextMode /\ Complete /\ block.action = "hover"
          /\ element = "null" /\ error = "")
          => /\ NoCallIn({"dispatchEvent(mouseover)", "dispatchEvent(mouseenter)",
                          "closeBrowser", "handleError"})
             /\ Called("analyze") /\ passes # <<>>
             /\ Len(pushed) = 1 /\ pushed[1].kind = "text_action"
             /\ pushed[1].detail = "hover"
             /\ handled = <<>>
             /\ consecutiveMistakeCount = entry.mistakes
    /\ (TextMode /\ Complete /\ block.action = "hover" /\ element = "null")
          => error # "No element found for selector"
    /\ (Done /\ TextMode /\ Complete /\ block.action = "click" /\ element = "null")
          => /\ passes = <<>> /\ NoCallIn({"analyze"})
             /\ Len(pushed) = 1 /\ pushed[1].kind = "failed"
             /\ consecutiveMistakeCount = entry.mistakes + 1

C37_Witness ==
    /\ Done /\ TextMode /\ block.action = "hover" /\ element = "null" /\ error = ""
    /\ calls[1] = "doAction" /\ calls[2] = "page.evaluate" /\ calls[3] = "analyze"
    /\ pushed[1].kind = "text_action" /\ pushed[1].detail = "hover"
    /\ consecutiveMistakeCount = entry.mistakes

\* a complete command whose action word is missing or unsupported has
\* ended
InvalidActionEnded == Done /\ ~block.partial /\ ActionInvalid(block.action)

\* C38: a complete command whose action is missing or unsupported ends
\* with the counter one above its value on entry, the missing-parameter
\* error for "action" pushed and closeBrowser called after it and nothing
\* else called: the capabilities are not read and no page or other session
\* call is made.  When closeBrowser resolved the Session is closed whatever
\* it was; when it rejected, the rejection is not handed to handleError.
C38_InvalidActionClosesOutsideHandler ==
    InvalidActionEnded
        => /\ consecutiveMistakeCount = entry.mistakes + 1
           /\ pushed = <<Result("missing_param", "action", "", <<>>, FALSE)>>
           /\ calls = <<"pushToolResult", "closeBrowser">>
           /\ ~modelInfo.read
           /\ handled = <<>> /\ NoCallIn({"handleError"})
           /\ error \in {"", "closeBrowser rejected"}
           /\ error = "" => (~browserOpen /\ liveBrowsers = 0)

C38_Witness ==
    /\ InvalidActionEnded /\ entry.open /\ ~browserOpen /\ error = ""
    /\ consecutiveMistakeCount = entry.mistakes + 1

C38_WitnessRejected ==
    /\ InvalidActionEnded /\ entry.open /\ error = "closeBrowser rejected"
    /\ handled = <<>>

\* C39: one complete command calls closeBrowser at most 3 times, and more
\* than once only in a text launch whose primary path threw and whose
\* fallback fetch failed: twice when the fetch rejected, three times when it
\* returned no content; handleError is then called once, as the last call,
\* after every closeBrowser, and all but the first of these closeBrowser
\* calls find the Session already closed.
C39_CloseBrowserAtMostThrice ==
    Complete =>
        /\ Count(calls, "closeBrowser") <= 3
        /\ Count(calls, "closeBrowser") > 1 => (TextLaunch /\ PrimaryThrew)
        /\ \A i \in 1..Len(calls) : calls[i] = "handleError" => i = Len(calls)
        /\ Count(calls, "handleError") <= 1
        /\ (Done /\ Count(calls, "closeBrowser") > 1)
              => /\ calls[Len(calls)] = "handleError"
                 /\ Len(handled) = 1 /\ pushed = <<>>
                 /\ ~browserOpen
        /\ (Done /\ TextLaunch /\ PrimaryThrew /\ error = "fallback fetch rejected")
              => Count(calls, "closeBrowser") = 2
        /\ (Done /\ TextLaunch /\ PrimaryThrew /\ error = "fallback fetch returned no content")
              => Count(calls, "closeBrowser") = 3
        /\ (Done /\ TextLaunch /\ PrimaryThrew /\ Len(handled) = 1)
              => Count(calls, "closeBrowser") \in {2, 3}

C39_Witness ==
    /\ Done /\ TextLaunch /\ PrimaryThrew
    /\ error = "fallback fetch returned no content"
    /\ Count(calls, "closeBrowser") = 3
    /\ calls[Len(calls)] = "handleError"
    /\ calls[Len(calls) - 1] = "closeBrowser"
    /\ SecondGotoRejected

====
